---- MODULE Spec2Model ----
(***************************************************************************)
(* Model of the CriminalIP-API desktop client: the batch lookup worker     *)
(* (IPSearchWorker), the main window handlers that start, observe and stop *)
(* it, the global thread registry and the encrypted key store (Settings).  *)
(*                                                                         *)
(* Threads: the GUI thread runs the MainWindow handlers one at a time from *)
(* its event loop; each IPSearchWorker.run runs in a thread of its own and *)
(* its lookups run in the processes of a multiprocessing.Pool.  Signals    *)
(* emitted by run are queued to the GUI thread (queue) and handled there.  *)
(* Pure presentation state (styles, page index, table cell contents) is    *)
(* left out; the text typed in an input widget is drawn when it is read.   *)
(***************************************************************************)
EXTENDS Naturals, Sequences, FiniteSets, TLC

\* ------------------------------------------------------------------ bounds
MaxTextLen == 3     \* longest text typed in the IP input, where batches run
MaxInputLen == 4    \* longest text typed in the IP input, where it is parsed
MaxKeyLen == 2      \* longest text typed in the API key input
MaxBatches == 2     \* workers created in one process
MaxCpu == 2         \* largest multiprocessing.cpu_count()
NumSalts == 2       \* distinct values os.urandom can return

\* ------------------------------------------------------------------ values
NL == "\n"
IpChars == {"1", " ", NL}
KeyChars == {"k", " "}
Whitespace == {" ", NL}

SeqsUpTo(S, n) == UNION {[1..m -> S] : m \in 0..n}
IpTexts == SeqsUpTo(IpChars, MaxTextLen)
KeyTexts == SeqsUpTo(KeyChars, MaxKeyLen)
Salts == 1..NumSalts

\* Optional values (Python None): strings and sequences kept apart
NoStr == [some |-> FALSE, val |-> ""]
NoSeq == [some |-> FALSE, val |-> <<>>]
NoNat == [some |-> FALSE, val |-> 0]
Some(v) == [some |-> TRUE, val |-> v]

\* texts str(e) of the exceptions a lookup can raise
ErrTexts == {"", "timeout"}

\* ------------------------------------------------------------------ str
RECURSIVE LStrip(_)
LStrip(s) == IF s # <<>> /\ Head(s) \in Whitespace THEN LStrip(Tail(s)) ELSE s

RECURSIVE RStrip(_)
RStrip(s) ==
    IF s # <<>> /\ s[Len(s)] \in Whitespace
    THEN RStrip(SubSeq(s, 1, Len(s) - 1))
    ELSE s

\* str.strip()
Strip(s) == RStrip(LStrip(s))

\* str.split('\n'): always at least one (possibly empty) line
RECURSIVE SplitLines(_)
SplitLines(s) ==
    IF \E i \in 1..Len(s) : s[i] = NL
    THEN LET i == CHOOSE j \in 1..Len(s) :
                      s[j] = NL /\ \A k \in 1..(j - 1) : s[k] # NL
         IN <<SubSeq(s, 1, i - 1)>> \o SplitLines(SubSeq(s, i + 1, Len(s)))
    ELSE <<s>>

RECURSIVE StripNonEmpty(_)
StripNonEmpty(lines) ==
    IF lines = <<>> THEN <<>>
    ELSE (IF Strip(Head(lines)) # <<>> THEN <<Strip(Head(lines))>> ELSE <<>>)
         \o StripNonEmpty(Tail(lines))

RECURSIVE StripAll(_)
StripAll(lines) ==
    IF lines = <<>> THEN <<>>
    ELSE <<Strip(Head(lines))>> \o StripAll(Tail(lines))

\* a lapse of the comprehension: its condition left out
ParseIpListUnfiltered(ip_text) == StripAll(SplitLines(ip_text))

\* [ip.strip() for ip in ip_text.split('\n') if ip.strip()]
ParseIpList(ip_text) == StripNonEmpty(SplitLines(ip_text))

Min(a, b) == IF a <= b THEN a ELSE b

\* ------------------------------------------------------------------ state
VARIABLES
    dotenv,            \* the .env file: [key, salt], each optional
    environ_salt,      \* os.environ["CRYPTO_SALT"] of this process, optional
    crypto_key,        \* Settings.crypto_key, named by the salt it derives from
    settings_api_key,  \* Settings.api_key
    api,               \* MainWindow.api: None or the CriminalIPAPI's api_key
    search_worker,     \* MainWindow.search_worker: 0 (None) or a worker
    search_button,     \* search_button.isEnabled()
    export_button,     \* export_button.isEnabled()
    progress_bar,      \* [visible, maximum, value]
    result_table,      \* column 0 of the rows of result_table
    dialogs,           \* stack of open modal message boxes
    main,              \* what the GUI thread is doing
    queue,             \* signal deliveries queued to the GUI thread
    workers,           \* every IPSearchWorker of this process, by creation
    threads            \* thread_manager.threads

vars == <<dotenv, environ_salt, crypto_key, settings_api_key, api,
          search_worker, search_button, export_button, progress_bar,
          result_table, dialogs, main, queue, workers, threads>>

settingsVars == <<dotenv, environ_salt, crypto_key, settings_api_key>>
widgetVars == <<search_button, export_button, progress_bar, result_table>>

Idle == [pc |-> "idle", caller |-> "", ip_list |-> <<>>, i |-> 0]

\* ------------------------------------------------------------------ crypto
\* CryptoUtils.generate_key: PBKDF2 of a fixed password, so the key is a
\* function of the salt alone
GenerateKey(salt) == salt

\* CryptoUtils.encrypt: a Fernet token of text under key
Encrypt(text, key) == [text |-> text, key |-> key]

\* CryptoUtils.decrypt: the text, or an exception (None) under another key
Decrypt(token, key) == IF token.key = key THEN Some(token.text) ELSE NoSeq


NoSalt == [some |-> FALSE, val |-> 0]
NoToken == [some |-> FALSE, val |-> Encrypt(<<>>, 0)]

\* ------------------------------------------------------------------ worker
\* a lapse of __init__: one process per processor, however few the targets
IPSearchWorkerPerCpu(api_key, ip_list, cpu) ==
    [api_key |-> api_key,
     ip_list |-> ip_list,
     cpu_count |-> cpu,
     process_count |-> cpu,
     is_running |-> TRUE,
     pc |-> "start",
     total |-> 0,
     processed |-> 0,
     args |-> <<>>,
     tasks |-> <<>>,
     results |-> <<>>,
     cur |-> 0,
     emitted |-> <<>>,
     observed |-> NoNat,
     stopped |-> NoNat]

\* IPSearchWorker.__init__; cpu is multiprocessing.cpu_count().  The fields
\* from pc on are the state of run and of its pool.  Four fields are
\* history: cpu_count, the value cpu_count() returned, emitted, the signals
\* the worker has emitted so far, observed, the number of them emitted
\* when run found _is_running False, and stopped, the number of them emitted
\* when stop() cleared the flag.
IPSearchWorker(api_key, ip_list, cpu) ==
    [api_key |-> api_key,
     ip_list |-> ip_list,
     cpu_count |-> cpu,
     process_count |-> Min(cpu, Len(ip_list)),
     is_running |-> TRUE,
     pc |-> "start",
     total |-> 0,
     processed |-> 0,
     args |-> <<>>,
     tasks |-> <<>>,
     results |-> <<>>,
     cur |-> 0,
     emitted |-> <<>>,
     observed |-> NoNat,
     stopped |-> NoNat]

\* QThread.isRunning()
IsRunning(w) == workers[w].pc # "done"

\* a signal emission: the arguments of the signal, and (history) the task it
\* is about and the number of workers that existed when it was emitted
Event(w, sig, ip, data, msg, n, total) ==
    [w |-> w, sig |-> sig, ip |-> ip, data |-> data, msg |-> msg,
     n |-> n, total |-> total,
     task |-> workers[w].cur, started |-> Len(workers)]

\* the response document of the remote API for ip
Payload(ip) == <<"report", ip>>

\* what process_ip returns: (ip, summary_result, None) or (ip, None, str(e))
Returned(ip, data, error) == [ip |-> ip, data |-> data, error |-> error]

\* the first statements of run: total, processed, args and the pool
RunBegin(w) ==
    /\ workers[w].pc = "start"
    /\ workers' = [workers EXCEPT
          ![w].total = Len(workers[w].ip_list),
          ![w].processed = 0,
          ![w].args = [i \in 1..Len(workers[w].ip_list) |->
                          [ip |-> workers[w].ip_list[i],
                           api_key |-> workers[w].api_key]],
          ![w].tasks = [i \in 1..Len(workers[w].ip_list) |->
                          [st |-> "queued", key |-> <<>>, calls |-> 0,
                           raised |-> FALSE,
                           ret |-> Returned(<<>>, NoSeq, NoStr)]],
          ![w].pc = "loop"]
    /\ UNCHANGED <<settingsVars, api, search_worker, widgetVars, dialogs,
                   main, queue, threads>>

InFlight(w) == {i \in 1..Len(workers[w].tasks) : workers[w].tasks[i].st = "running"}
Queued(w) == {i \in 1..Len(workers[w].tasks) : workers[w].tasks[i].st = "queued"}

\* a lapse of process_ip: the key is read from the window at the time of the
\* lookup, not taken from the arguments built when run began
PoolDispatchCurrentKey(w) ==
    /\ workers[w].pc \in {"loop", "check", "outcome", "progress"}
    /\ Queued(w) # {}
    /\ Cardinality(InFlight(w)) < workers[w].process_count
    /\ LET i == CHOOSE j \in Queued(w) : \A k \in Queued(w) : j <= k
       IN workers' = [workers EXCEPT
              ![w].tasks[i].st = "running",
              ![w].tasks[i].calls = @ + 1,
              ![w].tasks[i].key = api.val]
    /\ UNCHANGED <<settingsVars, api, search_worker, widgetVars, dialogs,
                   main, queue, threads>>

\* a free process of the pool takes the next task: process_ip builds
\* CriminalIPAPI(api_key) from its argument and ip_summary sends the one
\* request of _make_request with that key (calls, history, counts the
\* requests sent for the task)
PoolDispatch(w) ==
    /\ workers[w].pc \in {"loop", "check", "outcome", "progress"}
    /\ Queued(w) # {}
    /\ Cardinality(InFlight(w)) < workers[w].process_count
    /\ LET i == CHOOSE j \in Queued(w) : \A k \in Queued(w) : j <= k
       IN workers' = [workers EXCEPT
              ![w].tasks[i].st = "running",
              ![w].tasks[i].calls = @ + 1,
              ![w].tasks[i].key = workers[w].args[i].api_key]
    /\ UNCHANGED <<settingsVars, api, search_worker, widgetVars, dialogs,
                   main, queue, threads>>

\* a lapse of process_ip: a request that raised is sent once more
ProcessIpReturnRetry(w, i, ok, text) ==
    /\ workers[w].pc \in {"loop", "check", "outcome", "progress"}
    /\ i \in InFlight(w)
    /\ LET ip == workers[w].args[i].ip
       IN workers' =
            IF ~ok /\ workers[w].tasks[i].calls = 1
            THEN [workers EXCEPT ![w].tasks[i].calls = @ + 1]
            ELSE [workers EXCEPT
                    ![w].tasks[i].st = "returned",
                    ![w].tasks[i].raised = ~ok,
                    ![w].tasks[i].ret =
                        IF ok THEN Returned(ip, Some(Payload(ip)), NoStr)
                              ELSE Returned(ip, NoSeq, Some(text)),
                    ![w].results = Append(@, i)]
    /\ UNCHANGED <<settingsVars, api, search_worker, widgetVars, dialogs,
                   main, queue, threads>>

\* process_ip returns for task i: the request succeeded, or raised e with
\* str(e) = text
ProcessIpReturn(w, i, ok, text) ==
    /\ workers[w].pc \in {"loop", "check", "outcome", "progress"}
    /\ i \in InFlight(w)
    /\ LET ip == workers[w].args[i].ip
       IN workers' = [workers EXCEPT
              ![w].tasks[i].st = "returned",
              ![w].tasks[i].raised = ~ok,
              ![w].tasks[i].ret =
                  IF ok THEN Returned(ip, Some(Payload(ip)), NoStr)
                        ELSE Returned(ip, NoSeq, Some(text)),
              ![w].results = Append(@, i)]
    /\ UNCHANGED <<settingsVars, api, search_worker, widgetVars, dialogs,
                   main, queue, threads>>

Unfinished(w) ==
    {i \in 1..Len(workers[w].tasks) : workers[w].tasks[i].st \in {"queued", "running"}}

\* a lapse of the for statement: the loop ends as soon as no completed
\* result is waiting
RunNextEarly(w) ==
    /\ workers[w].pc = "loop"
    /\ IF workers[w].results # <<>>
       THEN workers' = [workers EXCEPT
                ![w].cur = Head(workers[w].results),
                ![w].results = Tail(@),
                ![w].tasks[Head(workers[w].results)].st = "yielded",
                ![w].pc = "check"]
       ELSE workers' = [workers EXCEPT ![w].cur = 0, ![w].pc = "exit"]
    /\ UNCHANGED <<settingsVars, api, search_worker, widgetVars, dialogs,
                   main, queue, threads>>

\* the for statement: the next completed result of imap_unordered, or the
\* end of the loop when every task has been yielded
RunNext(w) ==
    /\ workers[w].pc = "loop"
    /\ IF workers[w].results # <<>>
       THEN workers' = [workers EXCEPT
                ![w].cur = Head(workers[w].results),
                ![w].results = Tail(@),
                ![w].tasks[Head(workers[w].results)].st = "yielded",
                ![w].pc = "check"]
       ELSE /\ Unfinished(w) = {}
            /\ workers' = [workers EXCEPT ![w].cur = 0, ![w].pc = "exit"]
    /\ UNCHANGED <<settingsVars, api, search_worker, widgetVars, dialogs,
                   main, queue, threads>>

\* a lapse of the check: return in place of break, so that run ends without
\* emitting finished
RunCheckReturn(w) ==
    /\ workers[w].pc = "check"
    /\ workers' = IF ~workers[w].is_running
                  THEN [workers EXCEPT
                           ![w].observed = Some(Len(workers[w].emitted)),
                           ![w].pc = "returning"]
                  ELSE [workers EXCEPT ![w].processed = @ + 1,
                                       ![w].pc = "outcome"]
    /\ UNCHANGED <<settingsVars, api, search_worker, widgetVars, dialogs,
                   main, queue, threads>>

\* a lapse of the check: the flag is read but the loop body runs on, as when
\* the test is placed after the emissions
RunCheckLate(w) ==
    /\ workers[w].pc = "check"
    /\ workers' = IF ~workers[w].is_running
                  THEN [workers EXCEPT
                           ![w].observed = Some(Len(workers[w].emitted)),
                           ![w].processed = @ + 1,
                           ![w].pc = "outcome"]
                  ELSE [workers EXCEPT ![w].processed = @ + 1,
                                       ![w].pc = "outcome"]
    /\ UNCHANGED <<settingsVars, api, search_worker, widgetVars, dialogs,
                   main, queue, threads>>

\* a lapse of the check: continue in place of break, so that a stopped run
\* emits nothing more but goes on taking completions until the last one
RunCheckContinue(w) ==
    /\ workers[w].pc = "check"
    /\ workers' = IF ~workers[w].is_running
                  THEN [workers EXCEPT
                           ![w].observed = Some(Len(workers[w].emitted)),
                           ![w].pc = "loop"]
                  ELSE [workers EXCEPT ![w].processed = @ + 1,
                                       ![w].pc = "outcome"]
    /\ UNCHANGED <<settingsVars, api, search_worker, widgetVars, dialogs,
                   main, queue, threads>>

\* a lapse of the loop body: the completion is counted before the flag is
\* tested, so that a dropped completion is counted too
RunCheckCountFirst(w) ==
    /\ workers[w].pc = "check"
    /\ workers' = IF ~workers[w].is_running
                  THEN [workers EXCEPT
                           ![w].observed = Some(Len(workers[w].emitted)),
                           ![w].processed = @ + 1,
                           ![w].pc = "exit"]
                  ELSE [workers EXCEPT ![w].processed = @ + 1,
                                       ![w].pc = "outcome"]
    /\ UNCHANGED <<settingsVars, api, search_worker, widgetVars, dialogs,
                   main, queue, threads>>

\* a lapse of the check: the test inverted, so that a stopped run goes on and
\* a run that was not stopped breaks
RunCheckInverted(w) ==
    /\ workers[w].pc = "check"
    /\ workers' = IF workers[w].is_running
                  THEN [workers EXCEPT ![w].pc = "exit"]
                  ELSE [workers EXCEPT ![w].processed = @ + 1,
                                       ![w].pc = "outcome"]
    /\ UNCHANGED <<settingsVars, api, search_worker, widgetVars, dialogs,
                   main, queue, threads>>

\* if not self._is_running: break; processed += 1
RunCheck(w) ==
    /\ workers[w].pc = "check"
    /\ workers' = IF ~workers[w].is_running
                  THEN [workers EXCEPT
                           ![w].observed = Some(Len(workers[w].emitted)),
                           ![w].pc = "exit"]
                  ELSE [workers EXCEPT ![w].processed = @ + 1,
                                       ![w].pc = "outcome"]
    /\ UNCHANGED <<settingsVars, api, search_worker, widgetVars, dialogs,
                   main, queue, threads>>

\* Python truth value of the error returned by process_ip (None or a str)
Truthy(error) == error.some /\ error.val # ""

\* a lapse of the emission: the IP is taken from the list by the count of
\* completions, not from the tuple the lookup returned
OutcomeEventByCount(w) ==
    LET r == workers[w].tasks[workers[w].cur].ret
        ip == workers[w].ip_list[workers[w].processed]
    IN IF Truthy(r.error)
       THEN Event(w, "error", ip, NoSeq, r.error, 0, 0)
       ELSE Event(w, "result", ip, r.data, NoStr, 0, 0)

\* a lapse of the loop: the error of an earlier completion is kept, so that
\* every completion after a failure is reported as an error
OutcomeEventStickyError(w) ==
    LET r == workers[w].tasks[workers[w].cur].ret
        failed == \E k \in 1..Len(workers[w].emitted) :
                     workers[w].emitted[k].sig = "error"
    IN IF Truthy(r.error) \/ failed
       THEN Event(w, "error", r.ip, NoSeq, r.error, 0, 0)
       ELSE Event(w, "result", r.ip, r.data, NoStr, 0, 0)

\* if error: self.error.emit(ip, error) else: self.result.emit(ip, data)
OutcomeEvent(w) ==
    LET r == workers[w].tasks[workers[w].cur].ret
    IN IF Truthy(r.error)
       THEN Event(w, "error", r.ip, NoSeq, r.error, 0, 0)
       ELSE Event(w, "result", r.ip, r.data, NoStr, 0, 0)

RunEmitOutcome(w) ==
    /\ workers[w].pc = "outcome"
    /\ workers' = [workers EXCEPT ![w].emitted = Append(@, OutcomeEvent(w)),
                                  ![w].pc = "progress"]
    /\ queue' = Append(queue, OutcomeEvent(w))
    /\ UNCHANGED <<settingsVars, api, search_worker, widgetVars, dialogs,
                   main, threads>>

\* a lapse of the emission: the two arguments of progress exchanged
ProgressEventSwapped(w) ==
    Event(w, "progress", <<>>, NoSeq, NoStr, workers[w].total, workers[w].processed)

\* self.progress.emit(processed, total)
ProgressEvent(w) ==
    Event(w, "progress", <<>>, NoSeq, NoStr, workers[w].processed, workers[w].total)

\* self.finished.emit(), the last statement of run
FinishedEvent(w) == Event(w, "finished", <<>>, NoSeq, NoStr, 0, 0)

\* a lapse of indentation: finished is emitted in the loop, after progress
RunEmitProgressAndFinished(w) ==
    /\ workers[w].pc = "progress"
    /\ workers' = [workers EXCEPT
          ![w].emitted = @ \o <<ProgressEvent(w), FinishedEvent(w)>>,
          ![w].pc = "loop"]
    /\ queue' = queue \o <<ProgressEvent(w), FinishedEvent(w)>>
    /\ UNCHANGED <<settingsVars, api, search_worker, widgetVars, dialogs,
                   main, threads>>

RunEmitProgress(w) ==
    /\ workers[w].pc = "progress"
    /\ workers' = [workers EXCEPT ![w].emitted = Append(@, ProgressEvent(w)),
                                  ![w].pc = "loop"]
    /\ queue' = Append(queue, ProgressEvent(w))
    /\ UNCHANGED <<settingsVars, api, search_worker, widgetVars, dialogs,
                   main, threads>>

\* a lapse of run: the pool is not used as a context manager, so that
\* nothing terminates it when the loop is left
PoolExitLeftRunning(w) ==
    /\ workers[w].pc = "exit"
    /\ workers' = [workers EXCEPT ![w].results = <<>>,
                                  ![w].cur = 0,
                                  ![w].pc = "finish"]
    /\ UNCHANGED <<settingsVars, api, search_worker, widgetVars, dialogs,
                   main, queue, threads>>

\* leaving the with block: Pool.__exit__ terminates the pool, and the
\* lookups still queued or in flight are aborted
PoolExit(w) ==
    /\ workers[w].pc = "exit"
    /\ workers' = [workers EXCEPT
          ![w].tasks = [i \in 1..Len(workers[w].tasks) |->
              IF workers[w].tasks[i].st \in {"queued", "running"}
              THEN [workers[w].tasks[i] EXCEPT !.st = "aborted"]
              ELSE workers[w].tasks[i]],
          ![w].results = <<>>,
          ![w].cur = 0,
          ![w].pc = "finish"]
    /\ UNCHANGED <<settingsVars, api, search_worker, widgetVars, dialogs,
                   main, queue, threads>>

RunEmitFinished(w) ==
    /\ workers[w].pc = "finish"
    /\ workers' = [workers EXCEPT ![w].emitted = Append(@, FinishedEvent(w)),
                                  ![w].pc = "returning"]
    /\ queue' = Append(queue, FinishedEvent(w))
    /\ UNCHANGED <<settingsVars, api, search_worker, widgetVars, dialogs,
                   main, threads>>

\* run has returned and the thread ends: isRunning() becomes False and a
\* wait() on it returns
ThreadExit(w) ==
    /\ workers[w].pc = "returning"
    /\ workers' = [workers EXCEPT ![w].pc = "done"]
    /\ UNCHANGED <<settingsVars, api, search_worker, widgetVars, dialogs,
                   main, queue, threads>>

\* a lapse of stop: the flag is flipped, not cleared
StopToggle(ws, w) == [ws EXCEPT ![w].is_running = ~@]

\* IPSearchWorker.stop
Stop(ws, w) ==
    [ws EXCEPT ![w].is_running = FALSE,
               ![w].stopped = IF ws[w].is_running
                              THEN Some(Len(ws[w].emitted)) ELSE @]


\* ------------------------------------------------------------------ settings
\* Settings.__init__ on the file env when os.urandom returns fresh:
\* load_dotenv, _load_or_create_crypto_key, then the stored key decrypted
SettingsInit(env, fresh) ==
    LET salt == IF env.salt.some THEN env.salt.val ELSE fresh
        key == GenerateKey(salt)
        plain == IF env.key.some THEN Decrypt(env.key.val, key) ELSE NoSeq
    IN [dotenv |-> IF env.salt.some THEN env
                   ELSE [env EXCEPT !.salt = Some(fresh)],
        environ_salt |-> env.salt,
        crypto_key |-> key,
        api_key |-> IF plain.some THEN plain.val ELSE <<>>]

\* Settings.save_api_key: the file is rewritten with the encrypted key and
\* with the CRYPTO_SALT of the process environment, when it has one
SettingsSaveApiKey(api_key) ==
    /\ dotenv' = [key |-> Some(Encrypt(api_key, crypto_key)),
                  salt |-> environ_salt]
    /\ settings_api_key' = api_key
    /\ UNCHANGED <<environ_salt, crypto_key>>

\* ------------------------------------------------------------------ window
\* a lapse of create_api_settings_page: the saved key is not tested
LoadSavedKeyUntested(saved_api_key) == Some(saved_api_key)

\* create_api_settings_page: self.api after the saved key has been loaded
LoadSavedKey(saved_api_key) ==
    IF saved_api_key # <<>> THEN Some(saved_api_key) ELSE NoSeq

\* MainWindow.__init__ in a new process: Settings(), the widgets, and the
\* saved key loaded by create_api_settings_page
MainWindowInit(env, fresh) ==
    LET st == SettingsInit(env, fresh)
    IN /\ dotenv = st.dotenv
       /\ environ_salt = st.environ_salt
       /\ crypto_key = st.crypto_key
       /\ settings_api_key = st.api_key
       /\ api = LoadSavedKey(st.api_key)
       /\ search_worker = 0
       /\ search_button = TRUE
       /\ export_button = FALSE
       /\ progress_bar = [visible |-> FALSE, maximum |-> 100, value |-> 0]
       /\ result_table = <<>>
       /\ dialogs = <<>>
       /\ main = Idle
       /\ queue = <<>>
       /\ workers = <<>>
       /\ threads = <<>>

\* the first start of the application, with no .env file; salts are only
\* compared with each other, and the first one drawn is called 1
EmptyEnv == [key |-> NoToken, salt |-> NoSalt]

Init == MainWindowInit(EmptyEnv, 1)

\* the user can act on the window: the GUI thread is in its event loop and
\* no modal message box is open
Interactive == main.pc = "idle" /\ dialogs = <<>>

\* a lapse of search_ip: the worker is started without being registered
StartWorkerUnregistered(ws, ip_list, cpu) ==
    /\ workers' = Append(ws, IPSearchWorker(api.val, ip_list, cpu))
    /\ search_worker' = Len(ws) + 1
    /\ threads' = threads

\* the last statements of search_ip: the worker is created with the key of
\* self.api, connected, registered and started
StartWorker(ws, ip_list, cpu) ==
    /\ workers' = Append(ws, IPSearchWorker(api.val, ip_list, cpu))
    /\ search_worker' = Len(ws) + 1
    /\ threads' = Append(threads, Len(ws) + 1)

\* a lapse of search_ip: the table is not emptied
SearchIpKeepRows(ip_text, cpu) ==
    /\ Interactive
    /\ search_button
    /\ IF ~api.some
       THEN /\ dialogs' = Append(dialogs, "warning_api_key")
            /\ UNCHANGED <<settingsVars, api, search_worker, widgetVars, main,
                           queue, workers, threads>>
       ELSE IF Strip(ip_text) = <<>>
       THEN /\ dialogs' = Append(dialogs, "warning_ip")
            /\ UNCHANGED <<settingsVars, api, search_worker, widgetVars, main,
                           queue, workers, threads>>
       ELSE LET ip_list == ParseIpList(Strip(ip_text))
            IN /\ result_table' = result_table
               /\ progress_bar' = [visible |-> TRUE, maximum |-> Len(ip_list),
                                   value |-> 0]
               /\ search_button' = FALSE
               /\ IF search_worker # 0 /\ IsRunning(search_worker)
                  THEN /\ workers' = Stop(workers, search_worker)
                       /\ main' = [pc |-> "wait", caller |-> "search_ip",
                                   ip_list |-> ip_list, i |-> cpu]
                       /\ UNCHANGED <<search_worker, threads>>
                  ELSE /\ StartWorker(workers, ip_list, cpu)
                       /\ UNCHANGED main
               /\ UNCHANGED <<settingsVars, api, export_button, dialogs, queue>>

\* a lapse of search_ip: the search button is left enabled
SearchIpButtonLeft(ip_text, cpu) ==
    /\ Interactive
    /\ search_button
    /\ IF ~api.some
       THEN /\ dialogs' = Append(dialogs, "warning_api_key")
            /\ UNCHANGED <<settingsVars, api, search_worker, widgetVars, main,
                           queue, workers, threads>>
       ELSE IF Strip(ip_text) = <<>>
       THEN /\ dialogs' = Append(dialogs, "warning_ip")
            /\ UNCHANGED <<settingsVars, api, search_worker, widgetVars, main,
                           queue, workers, threads>>
       ELSE LET ip_list == ParseIpList(Strip(ip_text))
            IN /\ result_table' = <<>>
               /\ progress_bar' = [visible |-> TRUE, maximum |-> Len(ip_list),
                                   value |-> 0]
               /\ search_button' = search_button
               /\ IF search_worker # 0 /\ IsRunning(search_worker)
                  THEN /\ workers' = Stop(workers, search_worker)
                       /\ main' = [pc |-> "wait", caller |-> "search_ip",
                                   ip_list |-> ip_list, i |-> cpu]
                       /\ UNCHANGED <<search_worker, threads>>
                  ELSE /\ StartWorker(workers, ip_list, cpu)
                       /\ UNCHANGED main
               /\ UNCHANGED <<settingsVars, api, export_button, dialogs, queue>>

\* MainWindow.search_ip, run by a click on the (enabled) search button with
\* ip_text in the input; up to the wait() on a previous worker
SearchIp(ip_text, cpu) ==
    /\ Interactive
    /\ search_button
    /\ IF ~api.some
       THEN /\ dialogs' = Append(dialogs, "warning_api_key")
            /\ UNCHANGED <<settingsVars, api, search_worker, widgetVars, main,
                           queue, workers, threads>>
       ELSE IF Strip(ip_text) = <<>>
       THEN /\ dialogs' = Append(dialogs, "warning_ip")
            /\ UNCHANGED <<settingsVars, api, search_worker, widgetVars, main,
                           queue, workers, threads>>
       ELSE LET ip_list == ParseIpList(Strip(ip_text))
            IN /\ result_table' = <<>>
               /\ progress_bar' = [visible |-> TRUE, maximum |-> Len(ip_list),
                                   value |-> 0]
               /\ search_button' = FALSE
               /\ IF search_worker # 0 /\ IsRunning(search_worker)
                  THEN /\ workers' = Stop(workers, search_worker)
                       /\ main' = [pc |-> "wait", caller |-> "search_ip",
                                   ip_list |-> ip_list, i |-> cpu]
                       /\ UNCHANGED <<search_worker, threads>>
                  ELSE /\ StartWorker(workers, ip_list, cpu)
                       /\ UNCHANGED main
               /\ UNCHANGED <<settingsVars, api, export_button, dialogs, queue>>

\* a lapse of closeEvent: the worker is asked to stop but not awaited
CloseEventNoWait ==
    /\ Interactive
    /\ IF search_worker # 0 /\ IsRunning(search_worker)
       THEN /\ workers' = Stop(workers, search_worker)
            /\ search_worker' = 0
       ELSE UNCHANGED <<workers, search_worker>>
    /\ main' = [Idle EXCEPT !.pc = "closed"]
    /\ UNCHANGED <<settingsVars, api, widgetVars, dialogs, queue, threads>>

\* MainWindow.closeEvent, up to the wait() on a running worker
CloseEvent ==
    /\ Interactive
    /\ IF search_worker # 0 /\ IsRunning(search_worker)
       THEN /\ workers' = Stop(workers, search_worker)
            /\ main' = [Idle EXCEPT !.pc = "wait", !.caller = "closeEvent"]
       ELSE /\ main' = [Idle EXCEPT !.pc = "closed"]
            /\ UNCHANGED workers
    /\ UNCHANGED <<settingsVars, api, search_worker, widgetVars, dialogs,
                   queue, threads>>

\* ThreadManager.cleanup, run at exit: one iteration of its loop, up to the
\* wait() on a running thread, and threads.clear() after the last one
Cleanup ==
    /\ main.pc \in {"closed", "cleanup"}
    /\ LET i == IF main.pc = "closed" THEN 1 ELSE main.i
       IN IF i > Len(threads)
          THEN /\ threads' = <<>>
               /\ main' = [Idle EXCEPT !.pc = "exited"]
               /\ UNCHANGED workers
          ELSE IF IsRunning(threads[i])
          THEN /\ workers' = Stop(workers, threads[i])
               /\ main' = [Idle EXCEPT !.pc = "wait", !.caller = "cleanup",
                                       !.i = i]
               /\ UNCHANGED threads
          ELSE /\ main' = [Idle EXCEPT !.pc = "cleanup", !.i = i + 1]
               /\ UNCHANGED <<workers, threads>>
    /\ UNCHANGED <<settingsVars, api, search_worker, widgetVars, dialogs, queue>>

\* the worker the GUI thread is waiting for in QThread.wait()
Waited == IF main.caller = "cleanup" THEN threads[main.i] ELSE search_worker

\* QThread.wait() returns, and its caller runs on to its end
WaitReturn ==
    /\ main.pc = "wait"
    /\ ~IsRunning(Waited)
    /\ IF main.caller = "search_ip"
       THEN /\ StartWorker(workers, main.ip_list, main.i)
            /\ main' = Idle
       ELSE IF main.caller = "closeEvent"
       THEN /\ search_worker' = 0
            /\ main' = [Idle EXCEPT !.pc = "closed"]
            /\ UNCHANGED <<workers, threads>>
       ELSE /\ main' = [Idle EXCEPT !.pc = "cleanup", !.i = main.i + 1]
            /\ UNCHANGED <<search_worker, workers, threads>>
    /\ UNCHANGED <<settingsVars, api, widgetVars, dialogs, queue>>

\* the process has exited and the application is started again on the .env
\* file the last process left
AppStart ==
    /\ main.pc = "exited"
    /\ \E fresh \in Salts :
         LET st == SettingsInit(dotenv, fresh)
         IN /\ dotenv' = st.dotenv
            /\ environ_salt' = st.environ_salt
            /\ crypto_key' = st.crypto_key
            /\ settings_api_key' = st.api_key
            /\ api' = LoadSavedKey(st.api_key)
    /\ search_worker' = 0
    /\ search_button' = TRUE
    /\ export_button' = FALSE
    /\ progress_bar' = [visible |-> FALSE, maximum |-> 100, value |-> 0]
    /\ result_table' = <<>>
    /\ dialogs' = <<>>
    /\ main' = Idle
    /\ queue' = <<>>
    /\ workers' = <<>>
    /\ threads' = <<>>

\* MainWindow.save_api_key with text in the key input; written is whether
\* the .env file could be written
SaveApiKey(text, written) ==
    /\ Interactive
    /\ LET api_key == Strip(text)
       IN IF api_key = <<>>
          THEN /\ dialogs' = Append(dialogs, "warning_key")
               /\ UNCHANGED <<settingsVars, api>>
          ELSE IF written
          THEN /\ SettingsSaveApiKey(api_key)
               /\ api' = Some(api_key)
               /\ dialogs' = Append(dialogs, "information_saved")
          ELSE /\ dialogs' = Append(dialogs, "critical_save")
               /\ UNCHANGED <<settingsVars, api>>
    /\ UNCHANGED <<search_worker, widgetVars, main, queue, workers, threads>>

\* the user closes the message box on top
DismissDialog ==
    /\ main.pc = "idle"
    /\ dialogs # <<>>
    /\ dialogs' = SubSeq(dialogs, 1, Len(dialogs) - 1)
    /\ UNCHANGED <<settingsVars, api, search_worker, widgetVars, main, queue,
                   workers, threads>>

\* the event loop of the GUI thread (also the one a modal message box runs)
\* can deliver the next queued signal
CanDeliver(sig) ==
    /\ main.pc \in {"idle", "closed"}
    /\ queue # <<>>
    /\ Head(queue).sig = sig

\* MainWindow.update_progress
UpdateProgress ==
    /\ CanDeliver("progress")
    /\ progress_bar' = [progress_bar EXCEPT !.value = Head(queue).n]
    /\ queue' = Tail(queue)
    /\ UNCHANGED <<settingsVars, api, search_worker, search_button,
                   export_button, result_table, dialogs, main, workers, threads>>

\* a lapse of add_result: insertRow(0), the new row put above the others
AddResultAtTop ==
    /\ CanDeliver("result")
    /\ result_table' = <<Head(queue).ip>> \o result_table
    /\ export_button' = (export_button \/ Head(queue).data.some)
    /\ queue' = Tail(queue)
    /\ UNCHANGED <<settingsVars, api, search_worker, search_button,
                   progress_bar, dialogs, main, workers, threads>>

\* MainWindow.add_result: the row is inserted first; reading a payload that
\* is None raises before the export button is enabled
AddResult ==
    /\ CanDeliver("result")
    /\ result_table' = Append(result_table, Head(queue).ip)
    /\ export_button' = (export_button \/ Head(queue).data.some)
    /\ queue' = Tail(queue)
    /\ UNCHANGED <<settingsVars, api, search_worker, search_button,
                   progress_bar, dialogs, main, workers, threads>>

\* MainWindow.show_error
ShowError ==
    /\ CanDeliver("error")
    /\ dialogs' = Append(dialogs, "critical_lookup")
    /\ queue' = Tail(queue)
    /\ UNCHANGED <<settingsVars, api, search_worker, widgetVars, main,
                   workers, threads>>

\* MainWindow.search_finished
SearchFinished ==
    /\ CanDeliver("finished")
    /\ search_button' = TRUE
    /\ progress_bar' = [progress_bar EXCEPT !.visible = FALSE]
    /\ search_worker' = 0
    /\ queue' = Tail(queue)
    /\ UNCHANGED <<settingsVars, api, export_button, result_table, dialogs,
                   main, workers, threads>>

\* ------------------------------------------------------------------ system
\* a step of worker w or of its pool, the lookups failing with one of texts
WorkerStep(w, texts) ==
    \/ RunBegin(w)
    \/ PoolDispatch(w)
    \/ \E i \in 1..Len(workers[w].tasks) :
          \/ ProcessIpReturn(w, i, TRUE, "")
          \/ \E text \in texts : ProcessIpReturn(w, i, FALSE, text)
    \/ RunNext(w)
    \/ RunCheck(w)
    \/ RunEmitOutcome(w)
    \/ RunEmitProgress(w)
    \/ PoolExit(w)
    \/ RunEmitFinished(w)
    \/ ThreadExit(w)

\* the handlers of the signals of a worker, and the message boxes
SinkStep ==
    \/ DismissDialog
    \/ UpdateProgress
    \/ AddResult
    \/ ShowError
    \/ SearchFinished

\* closing the window and leaving the process
ExitStep ==
    \/ CloseEvent
    \/ WaitReturn
    \/ Cleanup

\* the key texts typed where the key only has to be set or changed
TwoKeys == {<<"k">>, <<"k", "k">>}

\* one process of the application running one batch, of any input text
Next ==
    \/ \E ip_text \in IpTexts, cpu \in 1..MaxCpu :
          workers = <<>> /\ SearchIp(ip_text, cpu)
    \/ \E text \in TwoKeys, written \in BOOLEAN : SaveApiKey(text, written)
    \/ SinkStep
    \/ ExitStep
    \/ \E w \in 1..Len(workers) : WorkerStep(w, ErrTexts)

Spec == Init /\ [][Next]_vars

\* the thread of every worker and the processes of its pool keep running,
\* and a lookup that is in flight returns
Fairness ==
    \A w \in 1..MaxBatches :
       WF_vars(w <= Len(workers) /\ WorkerStep(w, {"timeout"}))

\* one process running one batch, of any input text, under one key, the
\* lookups failing with one text
NextLive ==
    \/ \E ip_text \in IpTexts, cpu \in 1..MaxCpu :
          workers = <<>> /\ SearchIp(ip_text, cpu)
    \/ SaveApiKey(<<"k">>, TRUE)
    \/ SinkStep
    \/ ExitStep
    \/ \E w \in 1..Len(workers) : WorkerStep(w, {"timeout"})

SpecLive == Init /\ [][NextLive]_vars /\ Fairness

\* a deterministic API: what a request answers depends on the IP alone; an
\* IP of one character has a report, a longer one makes the request raise
MockOk(ip) == Len(ip) = 1
MockText(ip) == IF Len(ip) = 2 THEN "timeout" ELSE ""

\* a step of worker w or of its pool against the deterministic API
WorkerStepMock(w) ==
    \/ RunBegin(w)
    \/ PoolDispatch(w)
    \/ \E i \in 1..Len(workers[w].tasks) :
          ProcessIpReturn(w, i, MockOk(workers[w].ip_list[i]),
                          MockText(workers[w].ip_list[i]))
    \/ RunNext(w)
    \/ RunCheck(w)
    \/ RunEmitOutcome(w)
    \/ RunEmitProgress(w)
    \/ PoolExit(w)
    \/ RunEmitFinished(w)
    \/ ThreadExit(w)

\* the input texts of digits and line ends that strip() leaves as they are
TwiceTexts ==
    {t \in SeqsUpTo({"1", NL}, MaxInputLen) : t # <<>> /\ Strip(t) = t}

\* one process, never closed, running a batch and then a second one on the
\* same targets, under one key against the deterministic API
NextTwice ==
    \/ \E ip_text \in TwiceTexts, cpu \in 1..MaxCpu :
          /\ Len(workers) < 2
          /\ workers # <<>> =>
                ParseIpList(Strip(ip_text)) = workers[1].ip_list
          /\ SearchIp(ip_text, cpu)
    \/ workers = <<>> /\ SaveApiKey(<<"k">>, TRUE)
    \/ SinkStep
    \/ \E w \in 1..Len(workers) : WorkerStepMock(w)

SpecTwice == Init /\ [][NextTwice]_vars

\* the event loop of the GUI thread keeps running: a queued signal is
\* handled, whether or not a message box is open
FairnessSink ==
    WF_vars(UpdateProgress \/ AddResult \/ ShowError \/ SearchFinished)

\* one process, never closed, running up to MaxBatches batches of input
\* texts of one character under one key, the lookups failing with one text
NextButton ==
    \/ \E ip_text \in SeqsUpTo(IpChars, 1) :
          Len(workers) < MaxBatches /\ SearchIp(ip_text, 1)
    \/ workers = <<>> /\ SaveApiKey(<<"k">>, TRUE)
    \/ SinkStep
    \/ \E w \in 1..Len(workers) : WorkerStep(w, {"timeout"})

SpecButton == Init /\ [][NextButton]_vars /\ Fairness /\ FairnessSink

\* one process, never closed, running up to MaxBatches batches of input
\* texts of one character (one target at most) under two keys
NextBatches ==
    \/ \E ip_text \in SeqsUpTo(IpChars, 1) :
          Len(workers) < MaxBatches /\ SearchIp(ip_text, 1)
    \/ \E text \in TwoKeys : SaveApiKey(text, TRUE)
    \/ SinkStep
    \/ \E w \in 1..Len(workers) : WorkerStep(w, ErrTexts)

SpecBatches == Init /\ [][NextBatches]_vars

\* one process running up to MaxBatches batches of input texts of one
\* character under one key, closed at any time
NextRegistry ==
    \/ \E ip_text \in SeqsUpTo(IpChars, 1) :
          Len(workers) < MaxBatches /\ SearchIp(ip_text, 1)
    \/ workers = <<>> /\ SaveApiKey(<<"k">>, TRUE)
    \/ SinkStep
    \/ ExitStep
    \/ \E w \in 1..Len(workers) : WorkerStep(w, {"timeout"})

SpecRegistry == Init /\ [][NextRegistry]_vars

\* the application started again and again on the .env file it leaves, each
\* process running one batch at most, of an input text of one character
NextStore ==
    \/ \E ip_text \in SeqsUpTo(IpChars, 1) :
          workers = <<>> /\ SearchIp(ip_text, 1)
    \/ \E text \in KeyTexts, written \in BOOLEAN : SaveApiKey(text, written)
    \/ SinkStep
    \/ ExitStep
    \/ AppStart
    \/ \E w \in 1..Len(workers) : WorkerStep(w, ErrTexts)

SpecStore == Init /\ [][NextStore]_vars

\* one process, never closed, running one batch of any input text of up to
\* MaxInputLen characters, the lookups failing with one text
NextInput ==
    \/ \E ip_text \in SeqsUpTo(IpChars, MaxInputLen), cpu \in 1..MaxCpu :
          workers = <<>> /\ SearchIp(ip_text, cpu)
    \/ \E text \in TwoKeys : SaveApiKey(text, TRUE)
    \/ SinkStep
    \/ \E w \in 1..Len(workers) : WorkerStep(w, {"timeout"})

SpecInput == Init /\ [][NextInput]_vars

\* ------------------------------------------------------------------ claims
OutcomeSigs == {"result", "error"}

\* the positions in the history of worker w of its events of the kinds sigs
EventsOf(w, sigs) ==
    {k \in 1..Len(workers[w].emitted) : workers[w].emitted[k].sig \in sigs}

\* the outcome events of worker w for its list entry i
OutcomesFor(w, i) ==
    {k \in EventsOf(w, OutcomeSigs) : workers[w].emitted[k].task = i}

\* the loop of run is over
LoopOver(w) == workers[w].pc \in {"exit", "finish", "returning", "done"}

\* C1: each entry of the target list of a run gets at most one outcome event
\* (result or error), carrying the IP of that entry; a run whose stop() was
\* never called has, once its loop is over, exactly one outcome event per
\* entry and (N, N) as its last progress event.
C1_OneOutcomePerTarget ==
    \A w \in 1..Len(workers) :
       LET W == workers[w]
           N == Len(W.ip_list)
           P == EventsOf(w, {"progress"})
       IN /\ \A k \in EventsOf(w, OutcomeSigs) :
                /\ W.emitted[k].task \in 1..N
                /\ W.emitted[k].ip = W.ip_list[W.emitted[k].task]
          /\ \A i \in 1..N : Cardinality(OutcomesFor(w, i)) <= 1
          /\ (LoopOver(w) /\ W.is_running) =>
                /\ \A i \in 1..N : Cardinality(OutcomesFor(w, i)) = 1
                /\ P # {}
                /\ \A k \in P : (\A j \in P : j <= k) =>
                      W.emitted[k].n = N /\ W.emitted[k].total = N

\* an uncancelled run of two targets has ended
C1_Witness ==
    \E w \in 1..Len(workers) :
       /\ workers[w].pc = "done"
       /\ workers[w].is_running
       /\ Len(workers[w].ip_list) = 2
       /\ Cardinality(EventsOf(w, OutcomeSigs)) = 2

\* C3: a run emits finished exactly once, cancelled or not: never before its
\* loop and pool are over, once when it has returned, and no event of the run
\* follows it in the order of emission.
C3_FinishedOnceAndLast ==
    \A w \in 1..Len(workers) :
       LET F == EventsOf(w, {"finished"})
       IN /\ Cardinality(F) <= 1
          /\ \A k \in F : k = Len(workers[w].emitted)
          /\ workers[w].pc \in {"returning", "done"} <=> Cardinality(F) = 1

\* a cancelled run, which left its loop by break, has emitted finished and
\* ended
C3_Witness ==
    \E w \in 1..Len(workers) :
       /\ workers[w].pc = "done"
       /\ ~workers[w].is_running
       /\ workers[w].observed.some
       /\ EventsOf(w, {"finished"}) # {}

\* C4: once the loop of run has found _is_running False, the run emits no
\* further result, error or progress event (the completion it holds and the
\* later ones are dropped), and it still emits finished before it returns.
C4_NoEventAfterStopObserved ==
    \A w \in 1..Len(workers) :
       LET W == workers[w]
       IN W.observed.some =>
             /\ \A k \in 1..Len(W.emitted) :
                   k > W.observed.val => W.emitted[k].sig = "finished"
             /\ \A i \in 1..Len(W.tasks) :
                   W.tasks[i].st = "aborted" => OutcomesFor(w, i) = {}
             /\ W.pc \in {"returning", "done"} =>
                   EventsOf(w, {"finished"}) # {}

\* a run of two targets saw the flag after its first outcome, dropped the
\* second completion and emitted finished
C4_Witness ==
    \E w \in 1..Len(workers) :
       /\ workers[w].observed.some
       /\ workers[w].observed.val = 2
       /\ Len(workers[w].emitted) = 3
       /\ \E i \in 1..2 : /\ workers[w].tasks[i].st = "yielded"
                          /\ OutcomesFor(w, i) = {}

\* C6: the progress events of a batch all carry the number of targets as
\* total, a completed value between 0 and total, and completed values that
\* strictly increase in the order of emission.
C6_ProgressMonotone ==
    \A w \in 1..Len(workers) :
       LET W == workers[w]
           P == EventsOf(w, {"progress"})
       IN /\ \A k \in P : /\ W.emitted[k].total = Len(W.ip_list)
                          /\ 0 <= W.emitted[k].n
                          /\ W.emitted[k].n <= W.emitted[k].total
          /\ \A j, k \in P : j < k => W.emitted[j].n < W.emitted[k].n

\* a run has emitted two progress events
C6_Witness ==
    \E w \in 1..Len(workers) : Cardinality(EventsOf(w, {"progress"})) = 2

\* C2: in an uncancelled batch of N targets of which K lookups failed, the
\* run emits K error events and N - K result events.
C2_FailuresCounted ==
    \A w \in 1..Len(workers) :
       LET W == workers[w]
           K == Cardinality({i \in 1..Len(W.tasks) : W.tasks[i].raised})
       IN (LoopOver(w) /\ W.is_running) =>
             /\ Cardinality(EventsOf(w, {"error"})) = K
             /\ Cardinality(EventsOf(w, {"result"})) = Len(W.ip_list) - K

\* C5: a lookup that raised is never reported by a result event; its outcome
\* event is an error event with the IP of the target and the text of the
\* exception; and an uncancelled run reports every lookup that raised.
C5_FailureReportedAsError ==
    \A w \in 1..Len(workers) :
       LET W == workers[w]
       IN \A i \in 1..Len(W.tasks) :
             W.tasks[i].raised =>
                /\ \A k \in OutcomesFor(w, i) :
                      /\ W.emitted[k].sig = "error"
                      /\ W.emitted[k].ip = W.ip_list[i]
                      /\ W.emitted[k].msg = W.tasks[i].ret.error
                /\ (LoopOver(w) /\ W.is_running) => OutcomesFor(w, i) # {}

\* a worker has not yet emitted finished
Active(w) == workers[w].pc \notin {"returning", "done"}

\* C7 as stated: search_ip starts a new worker only when every earlier worker
\* has terminated (it has stopped and awaited a worker still running).
C7_PreviousTerminated ==
    \A w \in 1..Len(workers) : w < Len(workers) => workers[w].pc = "done"

\* C7 (amended): a new worker is started only when every earlier worker has
\* emitted finished, so that at most one batch is active at any time, and no
\* event of a batch is emitted once a later worker has been started; the
\* thread of the earlier worker may still be ending.
C7_OneActiveBatch ==
    /\ \A w \in 1..Len(workers) : w < Len(workers) => ~Active(w)
    /\ Cardinality({w \in 1..Len(workers) : Active(w)}) <= 1
    /\ \A w \in 1..Len(workers) :
          \A k \in 1..Len(workers[w].emitted) :
             workers[w].emitted[k].started = w

\* the second batch emits while the thread of the first worker, whose
\* events have all been handled, has not yet ended
C7_Witness ==
    /\ Len(workers) = 2
    /\ workers[1].pc = "returning"
    /\ workers[2].emitted # <<>>
    /\ search_worker = 2

\* C8: every worker has at least one target and no blank target; a search
\* on an empty or blank input opens the warning and neither creates a worker
\* nor leaves a signal to deliver; no batch ends without an outcome.
C8_NoEmptyBatch ==
    /\ \A w \in 1..Len(workers) :
          /\ Len(workers[w].ip_list) >= 1
          /\ \A i \in 1..Len(workers[w].ip_list) :
                /\ workers[w].ip_list[i] # <<>>
                /\ Strip(workers[w].ip_list[i]) = workers[w].ip_list[i]
          /\ workers[w].pc = "done" => EventsOf(w, OutcomeSigs) # {}
    /\ (\E k \in 1..Len(dialogs) : dialogs[k] = "warning_ip") =>
          workers = <<>> /\ queue = <<>> /\ threads = <<>>

\* with a key set, a search on a blank input has been answered by the warning
C8_Witness ==
    /\ api.some
    /\ dialogs = <<"warning_ip">>
    /\ workers = <<>>

\* C9: self.api is None or holds a non-empty key, every worker holds a
\* non-empty key, and a search made while no key is set opens the warning
\* and neither creates a worker nor leaves a signal to deliver.
C9_NoBatchWithoutKey ==
    /\ api.some => api.val # <<>>
    /\ \A w \in 1..Len(workers) : workers[w].api_key # <<>>
    /\ (\E k \in 1..Len(dialogs) : dialogs[k] = "warning_api_key") =>
          ~api.some /\ workers = <<>> /\ queue = <<>> /\ threads = <<>>

\* a process started on a .env file holding a key and a salt could not
\* decrypt the key, and its search has been answered by the warning
C9_Witness ==
    /\ dotenv.key.some
    /\ environ_salt.some
    /\ dialogs = <<"warning_api_key">>

\* the lookups of worker w that have been sent
Sent(w) == {i \in 1..Len(workers[w].tasks) : workers[w].tasks[i].calls > 0}

\* C10: every lookup of a batch is sent with the key the worker was created
\* with, whatever key the window holds by then, and a worker is created with
\* the key the window holds when search_ip creates it.
C10_KeyCapturedAtStart ==
    /\ [](\A w \in 1..Len(workers) :
            \A i \in Sent(w) : workers[w].tasks[i].key = workers[w].api_key)
    /\ [][Len(workers') > Len(workers) =>
            workers'[Len(workers')].api_key = api.val]_vars

\* a key was saved while a batch was in flight, and a lookup of the batch is
\* under way with the key of the batch
C10_Witness ==
    \E w \in 1..Len(workers) :
       /\ workers[w].pc \in {"loop", "check", "outcome", "progress"}
       /\ api.val # workers[w].api_key
       /\ \E i \in InFlight(w) : workers[w].tasks[i].key = workers[w].api_key

\* C11: the width of the pool of a batch is min(cpu_count(), number of
\* targets), it is at least 1, and at no time are more lookups of the batch
\* in flight than this width.
C11_WidthBoundsInFlight ==
    \A w \in 1..Len(workers) :
       LET W == workers[w]
       IN /\ W.process_count = Min(W.cpu_count, Len(W.ip_list))
          /\ W.process_count >= 1
          /\ Cardinality(InFlight(w)) <= W.process_count

\* on two processors and more, a batch of two targets has two lookups in
\* flight
C11_Witness ==
    \E w \in 1..Len(workers) :
       /\ workers[w].cpu_count >= 2
       /\ Len(workers[w].ip_list) = 2
       /\ Cardinality(InFlight(w)) = 2

\* C12: the flag _is_running of a worker is one-way: once stop() has cleared
\* it, no step of the program sets it again while the worker lives, and a
\* further stop() leaves every field of the worker as it is.
C12_StopOneWay ==
    /\ [](\A w \in 1..Len(workers) :
            ~workers[w].is_running => Stop(workers, w) = workers)
    /\ [][\A w \in 1..Len(workers) :
            (w <= Len(workers') /\ ~workers[w].is_running) =>
               ~workers'[w].is_running]_vars

\* a worker stopped in the middle of its run has run on to its end with the
\* flag still cleared
C12_Witness ==
    \E w \in 1..Len(workers) :
       /\ ~workers[w].is_running
       /\ workers[w].observed.some
       /\ workers[w].observed.val >= 2
       /\ workers[w].pc = "done"
       /\ main.pc = "exited"

\* C13: if every lookup in flight returns, every run that has started ends
\* and has emitted finished; and a run whose flag has been cleared takes no
\* completion into account any more: the next completion it is given makes
\* it leave the loop, whatever targets remain.
C13_RunTerminates ==
    /\ \A w \in 1..MaxBatches :
          (w <= Len(workers)) ~>
             (/\ w <= Len(workers)
              /\ workers[w].pc = "done"
              /\ EventsOf(w, {"finished"}) # {})
    /\ [][\A w \in 1..Len(workers) :
            (w <= Len(workers') /\ ~workers[w].is_running) =>
               /\ workers'[w].processed = workers[w].processed
               /\ (workers[w].pc = "check" /\ workers'[w].pc # "check") =>
                     workers'[w].pc = "exit"]_vars

\* a run of two targets stopped after its first outcome has left the loop
\* at the second completion, and has ended
C13_Witness ==
    \E w \in 1..Len(workers) :
       /\ workers[w].pc = "done"
       /\ ~workers[w].is_running
       /\ workers[w].processed = 1
       /\ Len(workers[w].ip_list) = 2
       /\ workers[w].observed = Some(2)

\* the events of the one batch of the process that the sink has handled
Handled ==
    IF workers = <<>> THEN <<>>
    ELSE SubSeq(workers[1].emitted, 1, Len(workers[1].emitted) - Len(queue))

\* the events of a sequence that are of the kind sig
OfKind(events, sig) == SelectSeq(events, LAMBDA e : e.sig = sig)

\* C14: the events of a batch are handled by the GUI thread alone, one
\* after the other in the order run emitted them: the events still to be
\* handled are the last ones emitted, in that order; the table, the progress
\* bar and the button show the events handled so far, in that order; and an
\* event is taken, from the head of the queue, only while the GUI thread is
\* in an event loop, not while it is inside search_ip, closeEvent or cleanup.
C14_HandledInOrder ==
    /\ [](/\ workers # <<>> => Handled \o queue = workers[1].emitted
          /\ workers = <<>> => queue = <<>>
          /\ result_table =
                [k \in 1..Len(OfKind(Handled, "result")) |->
                    OfKind(Handled, "result")[k].ip]
          /\ progress_bar.value =
                (IF OfKind(Handled, "progress") = <<>> THEN 0
                 ELSE OfKind(Handled, "progress")[
                         Len(OfKind(Handled, "progress"))].n)
          /\ (workers # <<>> =>
                (search_button <=> OfKind(Handled, "finished") # <<>>))
          /\ Len(SelectSeq(dialogs, LAMBDA d : d = "critical_lookup"))
                <= Len(OfKind(Handled, "error")))
    /\ [][queue' # queue /\ Len(queue') <= Len(queue) =>
            /\ queue' = Tail(queue)
            /\ main.pc \in {"idle", "closed"}
            /\ main' = main]_vars

\* two results for different targets, completed against the order of the
\* list, are in the table in the order they were emitted, and a later
\* event of the batch waits to be handled
C14_Witness ==
    /\ Len(workers) = 1
    /\ Len(result_table) = 2
    /\ result_table[1] # result_table[2]
    /\ result_table[1] = workers[1].ip_list[2]
    /\ queue # <<>>

\* C15: every result event carries the IP of the list entry whose lookup
\* produced it and the data that lookup returned, unchanged: for a lookup
\* that succeeded, the response document of the API for that IP; no result
\* event carries the IP of one entry with the data of another.
C15_ResultPairsIpAndPayload ==
    \A w \in 1..Len(workers) :
       LET W == workers[w]
       IN \A k \in EventsOf(w, {"result"}) :
             LET i == W.emitted[k].task
             IN /\ i \in 1..Len(W.ip_list)
                /\ W.emitted[k].ip = W.ip_list[i]
                /\ W.emitted[k].ip = W.tasks[i].ret.ip
                /\ W.emitted[k].data = W.tasks[i].ret.data
                /\ ~W.tasks[i].raised =>
                      W.emitted[k].data = Some(Payload(W.ip_list[i]))

\* the lookups of two different targets completed against the order of the
\* list, and each result event carries the document of its own IP
C15_Witness ==
    \E w \in 1..Len(workers) :
       LET W == workers[w]
       IN /\ Len(W.ip_list) = 2
          /\ W.ip_list[1] # W.ip_list[2]
          /\ Cardinality(EventsOf(w, {"result"})) = 2
          /\ W.emitted[1].sig = "result"
          /\ W.emitted[1].task = 2

\* the requests sent for the first n entries of the list of worker w
RECURSIVE CallsUpTo(_, _)
CallsUpTo(w, n) ==
    IF n = 0 THEN 0 ELSE workers[w].tasks[n].calls + CallsUpTo(w, n - 1)

\* C16: at most one request is sent for each entry of the list of a batch,
\* exactly one for an entry whose lookup has begun, also when it raised; and
\* when the loop of an uncancelled batch of N targets is over, N requests
\* have been sent.
C16_OneCallPerTarget ==
    \A w \in 1..Len(workers) :
       LET W == workers[w]
       IN /\ \A i \in 1..Len(W.tasks) :
                /\ W.tasks[i].calls <= 1
                /\ W.tasks[i].st \in {"running", "returned", "yielded"} =>
                      W.tasks[i].calls = 1
                /\ W.tasks[i].st = "queued" => W.tasks[i].calls = 0
                /\ W.tasks[i].raised => W.tasks[i].calls = 1
          /\ (LoopOver(w) /\ W.is_running) =>
                CallsUpTo(w, Len(W.tasks)) = Len(W.ip_list)

\* an uncancelled batch of two targets, one of whose lookups raised, has
\* ended
C16_Witness ==
    \E w \in 1..Len(workers) :
       /\ workers[w].pc = "done"
       /\ workers[w].is_running
       /\ Len(workers[w].tasks) = 2
       /\ \E i \in 1..2 : workers[w].tasks[i].raised
       /\ CallsUpTo(w, 2) = 2

\* the outcome events of worker w, as the sink sees them
OutcomeAt(w, k) ==
    [sig |-> workers[w].emitted[k].sig, ip |-> workers[w].emitted[k].ip,
     data |-> workers[w].emitted[k].data, msg |-> workers[w].emitted[k].msg]

\* how many times the outcome e is among the outcome events of worker w
CountOutcome(w, e) ==
    Cardinality({k \in EventsOf(w, OutcomeSigs) : OutcomeAt(w, k) = e})

\* C17: two uncancelled batches with the same target list and the same key,
\* run against a deterministic API, have emitted, once their loops are over,
\* the same outcome events the same number of times, whatever order the
\* lookups of each completed in.
C17_SameOutcomesTwice ==
    \A v, w \in 1..Len(workers) :
       (/\ LoopOver(v) /\ workers[v].is_running
        /\ LoopOver(w) /\ workers[w].is_running
        /\ workers[v].ip_list = workers[w].ip_list
        /\ workers[v].api_key = workers[w].api_key) =>
          \A k \in EventsOf(v, OutcomeSigs) \cup EventsOf(w, OutcomeSigs) :
             /\ k \in EventsOf(v, OutcomeSigs) =>
                   CountOutcome(v, OutcomeAt(v, k)) =
                      CountOutcome(w, OutcomeAt(v, k))
             /\ k \in EventsOf(w, OutcomeSigs) =>
                   CountOutcome(v, OutcomeAt(w, k)) =
                      CountOutcome(w, OutcomeAt(w, k))

\* the same list of two targets, one with a report and one whose request
\* raises, has been run twice, the lookups completing in one order in the
\* first run and in the other order in the second
C17_Witness ==
    /\ Len(workers) = 2
    /\ workers[1].ip_list = workers[2].ip_list
    /\ workers[1].pc = "done" /\ workers[2].pc = "done"
    /\ Len(workers[1].ip_list) = 2
    /\ workers[1].emitted[1].task # workers[2].emitted[1].task
    /\ workers[1].emitted[1].sig # workers[2].emitted[1].sig

\* the outcome events among the first k events of worker w
OutcomesUpTo(w, k) == {j \in EventsOf(w, OutcomeSigs) : j <= k}

\* C18: in the events of a batch, outcome and progress events alternate,
\* beginning with an outcome: the k-th outcome event is followed at once by
\* the progress event (k, total), each progress event carries the number of
\* outcome events emitted before it, and the counter of the run counts the
\* outcomes it has emitted or is about to emit, never a completion dropped
\* at cancellation.
C18_ProgressFollowsOutcome ==
    \A w \in 1..Len(workers) :
       LET W == workers[w]
           n == Cardinality(EventsOf(w, OutcomeSigs))
       IN /\ \A k \in EventsOf(w, OutcomeSigs) :
                k < Len(W.emitted) =>
                   /\ W.emitted[k + 1].sig = "progress"
                   /\ W.emitted[k + 1].n = Cardinality(OutcomesUpTo(w, k))
                   /\ W.emitted[k + 1].total = Len(W.ip_list)
          /\ \A k \in EventsOf(w, {"progress"}) :
                /\ k > 1
                /\ W.emitted[k - 1].sig \in OutcomeSigs
                /\ W.emitted[k].n = Cardinality(OutcomesUpTo(w, k))
          /\ W.processed = (IF W.pc = "outcome" THEN n + 1 ELSE n)
          /\ W.pc = "progress" <=>
                (W.emitted # <<>> /\
                 W.emitted[Len(W.emitted)].sig \in OutcomeSigs)

\* a run of two targets was stopped after its first outcome and dropped the
\* second completion: its events are an outcome, progress (1, 2) and finished
C18_Witness ==
    \E w \in 1..Len(workers) :
       /\ Len(workers[w].emitted) = 3
       /\ workers[w].emitted[2].sig = "progress"
       /\ workers[w].emitted[2].n = 1
       /\ workers[w].emitted[2].total = 2
       /\ workers[w].emitted[3].sig = "finished"
       /\ \E i \in 1..2 : workers[w].tasks[i].st = "yielded" /\
                            OutcomesFor(w, i) = {}

\* closeEvent has returned
Closed ==
    \/ main.pc \in {"closed", "cleanup", "exited"}
    \/ main.pc = "wait" /\ main.caller = "cleanup"

\* C19 as stated: once closeEvent has returned no worker thread is running,
\* search_worker is None, and no row is added to the table.
C19_NothingAfterClose ==
    /\ [](Closed => /\ \A w \in 1..Len(workers) :
                         IsRunning(w) => main.caller = "cleanup"
                    /\ search_worker = 0)
    /\ [][Closed => result_table' = result_table]_vars

\* C19 (amended): once closeEvent has returned no batch is active: every
\* worker has emitted finished and emits nothing more, and search_worker is
\* None or refers to a worker that had ended before closeEvent; a worker
\* that search_worker referred to and that was running has been asked to
\* stop and has ended when closeEvent returns, and search_worker is then
\* None.  (The thread of a worker whose finished signal has been handled may
\* still be ending, and events emitted before may still be handled.)
C19_ClosedNoActiveBatch ==
    /\ [](Closed => /\ \A w \in 1..Len(workers) : ~Active(w)
                    /\ search_worker # 0 => ~IsRunning(search_worker))
    /\ [][(Closed =>
              \A w \in 1..Len(workers) :
                 workers'[w].emitted = workers[w].emitted)
          /\
           ((main.pc = "wait" /\ main.caller = "closeEvent" /\
             main'.pc # "wait") =>
                /\ main'.pc = "closed"
                /\ search_worker' = 0
                /\ ~workers[search_worker].is_running
                /\ ~IsRunning(search_worker))]_vars

\* closeEvent has stopped and awaited a running worker and has returned,
\* and events that worker emitted wait to be handled
C19_Witness ==
    /\ main.pc = "closed"
    /\ search_worker = 0
    /\ queue # <<>>
    /\ \E w \in 1..Len(workers) :
          /\ ~workers[w].is_running
          /\ workers[w].pc = "done"
          /\ workers[w].observed.some

\* C20: while the process has not left cleanup(), the registry holds every
\* worker search_ip has created, from the moment it is started and also
\* after it has ended, once each, in the order of creation; cleanup() asks
\* every registered worker it finds running to stop and waits for it; and
\* when cleanup() has returned the registry is empty and every worker has
\* terminated.
C20_RegistryKeptUntilCleanup ==
    /\ [](/\ main.pc # "exited" =>
                threads = [w \in 1..Len(workers) |-> w]
          /\ main.pc = "exited" =>
                /\ threads = <<>>
                /\ \A w \in 1..Len(workers) : ~IsRunning(w)
          /\ (main.pc = "wait" /\ main.caller = "cleanup") =>
                ~workers[threads[main.i]].is_running)
    /\ [][(Len(threads') < Len(threads) =>
              main.pc \in {"closed", "cleanup"} /\ main'.pc = "exited")
          /\
           ((main.pc \in {"closed", "cleanup"} /\ main'.pc = "cleanup") =>
              ~IsRunning(threads[main'.i - 1]))]_vars

\* after two batches, cleanup() has found running a worker that closeEvent
\* did not await, has stopped it and waited for it, and has returned
C20_Witness ==
    /\ main.pc = "exited"
    /\ threads = <<>>
    /\ Len(workers) = 2
    /\ \E w \in 1..Len(workers) :
          /\ ~workers[w].is_running
          /\ ~workers[w].observed.some
          /\ workers[w].pc = "done"

\* the events of the latest batch that the sink has handled
HandledOfLast ==
    IF workers = <<>> THEN <<>>
    ELSE SubSeq(workers[Len(workers)].emitted, 1,
                Len(workers[Len(workers)].emitted) - Len(queue))

\* C21: the table has one row for each result event of the latest batch
\* that has been handled, and no other row: when search_finished has handled
\* the end of a batch, the table has as many rows as the batch has emitted
\* result events; starting a batch empties the table, and handling an error
\* event leaves the table as it is.
C21_RowsAreResultsOfBatch ==
    /\ [](/\ Len(result_table) = Len(OfKind(HandledOfLast, "result"))
          /\ \A k \in 1..Len(result_table) :
                result_table[k] = OfKind(HandledOfLast, "result")[k].ip
          /\ (workers # <<>> /\ search_button) =>
                Len(result_table) =
                   Cardinality(EventsOf(Len(workers), {"result"})))
    /\ [][(Len(workers') > Len(workers) => result_table' = <<>>)
          /\
           ((queue # <<>> /\ queue' = Tail(queue) /\
             Head(queue).sig # "result") =>
                result_table' = result_table)
          /\
           ((queue # <<>> /\ queue' = Tail(queue) /\
             Head(queue).sig = "result") =>
                Len(result_table') = Len(result_table) + 1)]_vars

\* a first batch has put a row in the table, and a second batch, whose
\* lookup failed, has completed and left the table empty
C21_Witness ==
    /\ Len(workers) = 2
    /\ search_button
    /\ EventsOf(1, {"result"}) # {}
    /\ EventsOf(2, {"error"}) # {}
    /\ result_table = <<>>

\* the events of the kinds sigs that worker w emitted after stop() was called
AfterStop(w, sigs) ==
    {k \in EventsOf(w, sigs) : k > workers[w].stopped.val}

\* C22: a worker emits at most one outcome event and one progress event
\* after stop() was called on it, the outcome event being the next event it
\* emits; and once the flag is cleared no completion passes the test of the
\* flag any more, so that this outcome is of the completion that had passed
\* it before.
C22_AtMostOneOutcomeAfterStop ==
    /\ [](\A w \in 1..Len(workers) :
            workers[w].stopped.some =>
               /\ ~workers[w].is_running
               /\ Cardinality(AfterStop(w, OutcomeSigs)) <= 1
               /\ Cardinality(AfterStop(w, {"progress"})) <= 1
               /\ \A k \in AfterStop(w, OutcomeSigs) :
                     k = workers[w].stopped.val + 1)
    /\ [][\A w \in 1..Len(workers) :
            (w <= Len(workers') /\ ~workers[w].is_running /\
             workers[w].pc \in {"start", "loop", "check"}) =>
               workers'[w].pc # "outcome"]_vars

\* stop() was called on a worker of two targets between the test of the flag
\* and the emission of its first outcome: the worker has emitted that outcome
\* and its progress, and then finished, dropping the second completion
C22_Witness ==
    \E w \in 1..Len(workers) :
       /\ workers[w].stopped = Some(0)
       /\ Len(workers[w].emitted) = 3
       /\ workers[w].emitted[1].sig \in OutcomeSigs
       /\ workers[w].emitted[2].sig = "progress"
       /\ workers[w].emitted[3].sig = "finished"
       /\ workers[w].observed = Some(2)

\* C23: from the moment a run is about to emit finished, no lookup of its
\* batch is in flight or waiting for a process of the pool, whether the loop
\* ended or was left by break: a lookup that had not returned has been
\* aborted with the pool, and a lookup whose result was not taken is not
\* reported.
C23_NoLookupInFlightAtFinished ==
    \A w \in 1..Len(workers) :
       (workers[w].pc \in {"finish", "returning", "done"} \/
        EventsOf(w, {"finished"}) # {}) =>
          /\ InFlight(w) = {}
          /\ Queued(w) = {}
          /\ workers[w].results = <<>>
          /\ \A i \in 1..Len(workers[w].tasks) :
                workers[w].tasks[i].st \in {"yielded", "aborted", "returned"}
          /\ \A i \in 1..Len(workers[w].tasks) :
                workers[w].tasks[i].st \in {"aborted", "returned"} =>
                   /\ ~workers[w].is_running
                   /\ OutcomesFor(w, i) = {}

\* a cancelled run has emitted finished after the pool aborted a lookup for
\* which the request had been sent and had not returned
C23_Witness ==
    \E w \in 1..Len(workers) :
       /\ EventsOf(w, {"finished"}) # {}
       /\ \E i \in 1..Len(workers[w].tasks) :
             /\ workers[w].tasks[i].st = "aborted"
             /\ workers[w].tasks[i].calls = 1

\* search_finished has handled the finished signal of worker w
FinishedHandled(w) ==
    /\ EventsOf(w, {"finished"}) # {}
    /\ \A k \in 1..Len(queue) :
          ~(queue[k].w = w /\ queue[k].sig = "finished")

\* C24: the search button is disabled from the start of a batch until
\* search_finished has handled its finished signal, and a batch is started
\* only when the finished signal of every earlier batch has been handled;
\* and if lookups return and the event loop runs, every batch that is started
\* is followed by a state where its finished signal has been handled and the
\* button is enabled.
C24_ButtonGatesBatches ==
    /\ [](\A w \in 1..Len(workers) : ~FinishedHandled(w) => ~search_button)
    /\ [][Len(workers') > Len(workers) =>
            /\ search_button /\ ~search_button'
            /\ \A w \in 1..Len(workers) : FinishedHandled(w)]_vars
    /\ \A w \in 1..MaxBatches :
          (Len(workers) = w) ~>
             (Len(workers) = w /\ FinishedHandled(w) /\ search_button)

\* a second batch is in flight with the button disabled, after the first
\* batch ended and the button was enabled again
C24_Witness ==
    /\ Len(workers) = 2
    /\ FinishedHandled(1)
    /\ workers[2].pc = "loop"
    /\ InFlight(2) # {}
    /\ ~search_button

\* C25: a key stored with Settings.save_api_key is the key Settings holds
\* from then on, in the process that saved it and, decrypted from the .env
\* file, in every later process.
C25_SavedKeyRecovered ==
    dotenv.key.some => settings_api_key = dotenv.key.val.text
====
